---- MODULE Spec2Model ----
(***************************************************************************)
(* Model of the bearnotes note parser / writer (package bearnotes):        *)
(* LoadNote, NewTag, NewFile, NewImage, the String methods, escapePath and *)
(* WriteNote.                                                              *)
(*                                                                         *)
(* A string is a sequence of one-character strings; every character of the *)
(* modelled alphabet is one byte, so a sequence index is a byte offset.    *)
(* Positions are 0-based half-open spans [s, e) as in Go.                  *)
(***************************************************************************)
EXTENDS Integers, Sequences, FiniteSets, TLC

VARIABLES content,   \* the Markdown text handed to LoadNote
          nsegs,     \* number of fragments the text was assembled from
          pc,        \* "input" | "loaded" | "written"
          note,      \* the *Note returned by LoadNote, as edited by the caller
          nedits,    \* number of caller edits applied to the note
          result,    \* what WriteNote produced: [panic, out]
          path,      \* escapePath study: the location string
          escaped,   \* escapePath study: escapePath(path)
          epc,       \* escapePath study: "input" | "escaped"
          tags,      \* MigrateNotes: the tag configuration, name -> TagOptions
          queue,     \* MigrateNotes: the notes filepath.Walk has yet to visit
          mpc,       \* MigrateNotes: position in the walk callback
          allNotes,  \* MigrateNotes: notes processed
          success,   \* MigrateNotes: notes migrated
          targetDir, \* MigrateNotes: target directory of the current note
          handlingStrategy, \* MigrateNotes: handling strategy of the current note
          ti,        \* MigrateNotes: index of the next tag of the tag loop
          ii,        \* MigrateNotes: index of the next image of the image loop
          fi,        \* MigrateNotes: index of the next file of the file loop
          fs,        \* the files under the destination directory, path -> file
          dirs,      \* the directories under (and including) the destination
          sources    \* the attachments under the source directory, path -> kind

\* the variables of MigrateNotes
mvars == <<tags, queue, mpc, allNotes, success, targetDir, handlingStrategy,
           ti, ii, fi, fs, dirs, sources>>

vars == <<content, nsegs, pc, note, nedits, result, path, escaped, epc,
          tags, queue, mpc, allNotes, success, targetDir, handlingStrategy,
          ti, ii, fi, fs, dirs, sources>>

(***************************************************************************)
(* Bounds                                                                  *)
(***************************************************************************)
MaxSegs == 3
MaxEdits == 1
MaxPathLen == 4

(***************************************************************************)
(* Character classes                                                       *)
(***************************************************************************)
\* \p{L}, restricted to the ASCII letters
Letters ==
    {"a", "b", "c", "d", "e", "f", "g", "h", "i", "j", "k", "l",
     "m", "n", "o", "p", "q", "r", "s", "t", "u", "v", "w", "x",
     "y", "z", "A", "B", "C", "D", "E", "F", "G", "H", "I", "J",
     "K", "L", "M", "N", "O", "P", "Q", "R", "S", "T", "U", "V",
     "W", "X", "Y", "Z"}

\* \p{N}, restricted to the ASCII digits
Digits == {"0", "1", "2", "3", "4", "5", "6", "7", "8", "9"}

\* unicode.IsSpace, restricted to the one-byte white space of the alphabet
Spaces == {" ", "\n", "\t"}

IsSpace(c) == c \in Spaces

\* variant: the first character of a name taken from the whole name class
IsNameStartAnyNameChar(c) ==
    c \in Letters \cup Digits \cup {"-", "/", "$", "_", "%"}

\* [\p{L}]
IsNameStart(c) == c \in Letters

\* the class of the characters a name continues with
NameChars == Letters \cup Digits \cup
             {"-", "/", "$", "_", "%", "=", "+", "(", "{", "[", "\\", "@"}

\* "." of the regexp syntax: any character but a newline
IsDot(c) == c # "\n"

Quotes == {"'", "\""}

(***************************************************************************)
(* String helpers (0-based offsets)                                        *)
(***************************************************************************)
Sub(t, s, e) == SubSeq(t, s + 1, e)

Lit(t, p, lit) == p + Len(lit) <= Len(t) /\ Sub(t, p, p + Len(lit)) = lit

SetMin(S) == CHOOSE x \in S : \A y \in S : x <= y

SetMax(S) == CHOOSE x \in S : \A y \in S : x >= y

RECURSIVE RunWhileIn(_, _, _)
\* end of the longest run of characters of `set` starting at offset i
RunWhileIn(t, i, set) ==
    IF i < Len(t) /\ t[i + 1] \in set THEN RunWhileIn(t, i + 1, set) ELSE i

RECURSIVE RunWhileNotIn(_, _, _)
\* end of the longest run of characters outside `stop` starting at offset i
RunWhileNotIn(t, i, stop) ==
    IF i < Len(t) /\ t[i + 1] \notin stop THEN RunWhileNotIn(t, i + 1, stop) ELSE i

NoMatch == [s |-> -1, e |-> -1, g |-> <<>>]

\* ---- reTag: (^|.?) # ([\p{L}][-\p{L}\p{N}/$_%=+({[\\@ and two more]*) (.?|$)
\* variant: group 1 written (^|.), without the empty alternative
TagBeforeAlternativesNoEmpty(t, p) ==
    (IF p = 0 THEN <<0>> ELSE <<>>)
    \o (IF p < Len(t) /\ t[p + 1] # "\n" THEN <<1>> ELSE <<>>)

\* the alternatives of group 1 in the order the engine prefers them, as the
\* number of characters each consumes: ^ (only at offset 0), ".", empty
TagBeforeAlternatives(t, p) ==
    (IF p = 0 THEN <<0>> ELSE <<>>)
    \o (IF p < Len(t) /\ IsDot(t[p + 1]) THEN <<1>> ELSE <<>>)
    \o <<0>>

\* "#" at offset h followed by the first character of a name
TagCoreAt(t, h) == h + 1 < Len(t) /\ t[h + 1] = "#" /\ IsNameStart(t[h + 2])

\* group 3: ".?" is greedy and comes first, "$" is only reached when no
\* character can be taken, and then the empty ".?" has matched already
TagAfterLen(t, n) == IF n < Len(t) /\ IsDot(t[n + 1]) THEN 1 ELSE 0

\* the match of reTag that starts at offset p, or NoMatch
TagMatchAt(t, p) ==
    LET alts == TagBeforeAlternatives(t, p)
        ok == {i \in DOMAIN alts : TagCoreAt(t, p + alts[i])}
    IN IF ok = {} THEN NoMatch
       ELSE LET h == p + alts[SetMin(ok)]
                n == RunWhileIn(t, h + 2, NameChars)
                e == n + TagAfterLen(t, n)
            IN [s |-> p, e |-> e,
                g |-> <<Sub(t, p, h), Sub(t, h + 1, n), Sub(t, n, e)>>]

\* ---- reFile: "<a", spaces, "href=", quote, url, quote, ">", name, "</a>"
FileMatchAt(t, p) ==
    IF ~Lit(t, p, <<"<", "a">>) THEN NoMatch
    ELSE LET sp == RunWhileIn(t, p + 2, {" "})
             q == sp + 5
             u0 == q + 1
             u1 == RunWhileNotIn(t, u0, Quotes)
             n0 == u1 + 2
             n1 == RunWhileNotIn(t, n0, {"<"})
         IN IF /\ sp > p + 2
               /\ Lit(t, sp, <<"h", "r", "e", "f", "=">>)
               /\ q < Len(t) /\ t[q + 1] \in Quotes
               /\ u1 > u0
               /\ u1 < Len(t)
               /\ Lit(t, u1 + 1, <<">">>)
               /\ n1 > n0
               /\ Lit(t, n1, <<"<", "/", "a", ">">>)
            THEN [s |-> p, e |-> n1 + 4, g |-> <<Sub(t, u0, u1), Sub(t, n0, n1)>>]
            ELSE NoMatch

\* ---- reImage: "![", description without "]", "](", url without "(", ")"
ImageMatchAt(t, p) ==
    IF ~Lit(t, p, <<"!", "[">>) THEN NoMatch
    ELSE LET d0 == p + 2
             d1 == RunWhileNotIn(t, d0, {"]"})
             u0 == d1 + 2
             r == RunWhileNotIn(t, u0, {"("})
             \* [^(]+ is greedy: the closing parenthesis is the last one of the run
             closes == {j \in (u0 + 1)..(r - 1) : t[j + 1] = ")"}
         IN IF /\ Lit(t, d1, <<"]", "(">>)
               /\ closes # {}
            THEN LET j == SetMax(closes)
                 IN [s |-> p, e |-> j + 1, g |-> <<Sub(t, d0, d1), Sub(t, u0, j)>>]
            ELSE NoMatch

MatchAt(re, t, p) ==
    CASE re = "tag" -> TagMatchAt(t, p)
      [] re = "file" -> FileMatchAt(t, p)
      [] re = "image" -> ImageMatchAt(t, p)

\* Regexp.FindStringSubmatch from offset pos: the leftmost match
FindFrom(re, t, pos) ==
    LET starts == {p \in pos..(Len(t) - 1) : MatchAt(re, t, p).s = p}
    IN IF starts = {} THEN NoMatch ELSE MatchAt(re, t, SetMin(starts))

RECURSIVE FindAllFrom(_, _, _)
\* Regexp.FindAllStringIndex: successive non-overlapping matches; every
\* match of the three patterns is non-empty, so the next search starts at
\* the end of the previous match
FindAllFrom(re, t, pos) ==
    LET m == FindFrom(re, t, pos)
    IN IF m.s < 0 THEN <<>>
       ELSE <<<<m.s, m.e>>>> \o FindAllFrom(re, t, m.e)

FindAllStringIndex(re, t) == FindAllFrom(re, t, 0)

(***************************************************************************)
(* net/url PathUnescape and PathEscape, as called by the package           *)
(***************************************************************************)
\* <<character, first hex digit, second hex digit>> of the bytes PathEscape
\* escapes, for the characters of the modelled alphabet
HexTable ==
    {<<" ", "2", "0">>, <<"!", "2", "1">>, <<"\"", "2", "2">>, <<"#", "2", "3">>,
     <<"%", "2", "5">>, <<"'", "2", "7">>, <<"(", "2", "8">>, <<")", "2", "9">>,
     <<",", "2", "C">>, <<"/", "2", "F">>, <<";", "3", "B">>, <<"<", "3", "C">>,
     <<">", "3", "E">>, <<"?", "3", "F">>, <<"[", "5", "B">>, <<"\\", "5", "C">>,
     <<"]", "5", "D">>, <<"{", "7", "B">>, <<"\n", "0", "A">>, <<"\t", "0", "9">>}

HexDigits == Digits \cup {"a", "b", "c", "d", "e", "f", "A", "B", "C", "D", "E", "F"}

\* the character a valid %XX stands for
UnhexChar(h1, h2) == (CHOOSE tr \in HexTable : tr[2] = h1 /\ tr[3] = h2)[1]

RECURSIVE UnescapeFrom(_, _)
\* url.unescape in path-segment mode from offset i: [ok, out]; a "%" that is
\* not followed by two hex digits is an EscapeError
UnescapeFrom(s, i) ==
    IF i >= Len(s) THEN [ok |-> TRUE, out |-> <<>>]
    ELSE IF s[i + 1] = "%"
         THEN IF i + 2 >= Len(s) \/ s[i + 2] \notin HexDigits \/ s[i + 3] \notin HexDigits
              THEN [ok |-> FALSE, out |-> <<>>]
              ELSE LET rest == UnescapeFrom(s, i + 3)
                   IN [ok |-> rest.ok,
                       out |-> <<UnhexChar(s[i + 2], s[i + 3])>> \o rest.out]
         ELSE LET rest == UnescapeFrom(s, i + 1)
              IN [ok |-> rest.ok, out |-> <<s[i + 1]>> \o rest.out]

\* url.PathUnescape as the package uses it: the error is dropped and the
\* string returned with an error is empty
PathUnescape(s) ==
    LET r == UnescapeFrom(s, 0) IN IF r.ok THEN r.out ELSE <<>>

\* url.shouldEscape in path-segment mode
ShouldEscape(c) ==
    ~ \/ c \in Letters \cup Digits
      \/ c \in {"-", "_", ".", "~"}
      \/ c \in {"$", "&", "+", ":", "=", "@"}

EscapeChar(c) ==
    IF ShouldEscape(c)
    THEN LET tr == CHOOSE x \in HexTable : x[1] = c IN <<"%", tr[2], tr[3]>>
    ELSE <<c>>

RECURSIVE PathEscape(_)
PathEscape(s) == IF s = <<>> THEN <<>> ELSE EscapeChar(Head(s)) \o PathEscape(Tail(s))

RECURSIVE Split(_, _)
\* strings.Split(s, sep) for a one-character separator
Split(s, sep) ==
    LET i == RunWhileNotIn(s, 0, {sep})
    IN IF i >= Len(s) THEN <<s>>
       ELSE <<Sub(s, 0, i)>> \o Split(Sub(s, i + 1, Len(s)), sep)

RECURSIVE EscapeComponents(_, _)
\* the loop of escapePath over pathComponents from index i (1-based)
EscapeComponents(pathComponents, i) ==
    IF i > Len(pathComponents) THEN <<>>
    ELSE (IF i > 1 THEN <<"/">> ELSE <<>>)
         \o PathEscape(pathComponents[i])
         \o EscapeComponents(pathComponents, i + 1)

\* variant: the whole path escaped at once
escapePathWhole(p) == PathEscape(p)

escapePath(p) == EscapeComponents(Split(p, "/"), 1)

(***************************************************************************)
(* Tag, File, Image                                                        *)
(***************************************************************************)
ZeroTag == [Name |-> <<>>, position |-> <<>>, before |-> <<>>, after |-> <<>>]

\* a valid tag is surrounded by either a space character or nothing
TagIsValid(parts) ==
    /\ (Len(parts[1]) = 0 \/ IsSpace(parts[1][1]))
    /\ (Len(parts[3]) = 0 \/ IsSpace(parts[3][1]))

\* variant: the character matched before the "#" is not kept
NewTagDropsBefore(str, position) ==
    LET m == FindFrom("tag", str, 0)
    IN IF m.s >= 0 /\ TagIsValid(m.g)
       THEN [Name |-> m.g[2], position |-> position,
             before |-> <<>>, after |-> m.g[3]]
       ELSE ZeroTag

NewTag(str, position) ==
    LET m == FindFrom("tag", str, 0)
    IN IF m.s >= 0 /\ TagIsValid(m.g)
       THEN [Name |-> m.g[2], position |-> position,
             before |-> m.g[1], after |-> m.g[3]]
       ELSE ZeroTag

\* variant: the trailing boundary character is not written back
TagStringDropsAfter(tag) ==
    IF Len(tag.Name) = 0 THEN tag.before \o tag.after
    ELSE tag.before \o <<"#">> \o tag.Name

\* variant: the "#" is written even when the name is empty
TagStringKeepsHash(tag) == tag.before \o <<"#">> \o tag.Name \o tag.after

TagString(tag) ==
    IF Len(tag.Name) = 0 THEN tag.before \o tag.after
    ELSE tag.before \o <<"#">> \o tag.Name \o tag.after

ZeroFile == [Location |-> <<>>, Name |-> <<>>, position |-> <<>>]

NewFile(str, position) ==
    LET m == FindFrom("file", str, 0)
    IN IF m.s >= 0
       THEN [Location |-> PathUnescape(m.g[1]), Name |-> m.g[2], position |-> position]
       ELSE ZeroFile

FileString(file) ==
    <<"[">> \o file.Name \o <<"]", "(">> \o escapePath(file.Location) \o <<")">>

ZeroImage == [Location |-> <<>>, Description |-> <<>>, position |-> <<>>]

NewImage(str, position) ==
    LET m == FindFrom("image", str, 0)
    IN IF m.s >= 0
       THEN [Location |-> PathUnescape(m.g[2]), Description |-> m.g[1],
             position |-> position]
       ELSE ZeroImage

ImageString(image) ==
    <<"!", "[">> \o image.Description \o <<"]", "(">>
    \o escapePath(image.Location) \o <<")">>

(***************************************************************************)
(* LoadNote                                                                *)
(***************************************************************************)
RECURSIVE LoadTags(_, _, _)
LoadTags(t, matches, i) ==
    IF i > Len(matches) THEN <<>>
    ELSE LET match == matches[i]
             tag == NewTag(Sub(t, match[1], match[2]), match)
         IN (IF Len(tag.Name) > 0 THEN <<tag>> ELSE <<>>) \o LoadTags(t, matches, i + 1)

LoadFiles(t, matches) ==
    [i \in DOMAIN matches |-> NewFile(Sub(t, matches[i][1], matches[i][2]), matches[i])]

LoadImages(t, matches) ==
    [i \in DOMAIN matches |-> NewImage(Sub(t, matches[i][1], matches[i][2]), matches[i])]

LoadNote(t) ==
    [content |-> t,
     Tags |-> LoadTags(t, FindAllStringIndex("tag", t), 1),
     Files |-> LoadFiles(t, FindAllStringIndex("file", t)),
     Images |-> LoadImages(t, FindAllStringIndex("image", t))]

(***************************************************************************)
(* WriteNote                                                               *)
(***************************************************************************)
\* the items list: tags, then files, then images, each as <<content, position>>
UpdatedItems(n) ==
    [i \in DOMAIN n.Tags |-> [content |-> TagString(n.Tags[i]), position |-> n.Tags[i].position]]
    \o [i \in DOMAIN n.Files |-> [content |-> FileString(n.Files[i]), position |-> n.Files[i].position]]
    \o [i \in DOMAIN n.Images |-> [content |-> ImageString(n.Images[i]), position |-> n.Images[i].position]]

\* the less function handed to sort.Slice
ItemLess(a, b) == a.position[1] < b.position[2]

Swap(items, i, j) == [items EXCEPT ![i] = items[j], ![j] = items[i]]

RECURSIVE SiftBack(_, _)
\* inner loop of the insertion sort: for j := i; j > a && less(j, j-1); j--
SiftBack(items, j) ==
    IF j > 1 /\ ItemLess(items[j], items[j - 1])
    THEN SiftBack(Swap(items, j, j - 1), j - 1)
    ELSE items

RECURSIVE InsertionSort(_, _)
\* sort.Slice sorts a slice of at most 12 elements by insertion sort
InsertionSort(items, i) ==
    IF i > Len(items) THEN items ELSE InsertionSort(SiftBack(items, i), i + 1)

\* variant: the items are left in collection order
SortItemsNone(items) == items

SortItems(items) == InsertionSort(items, 2)

RECURSIVE Splice(_, _, _, _)
\* the loop over the sorted items from index i with the cursor at `current`;
\* note.content[current:item.position[0]] panics when current is beyond
\* item.position[0]
Splice(t, items, i, current) ==
    IF i > Len(items)
    THEN [panic |-> FALSE, out |-> Sub(t, current, Len(t))]
    ELSE IF current > items[i].position[1] \/ items[i].position[1] > Len(t)
         THEN [panic |-> TRUE, out |-> <<>>]
         ELSE LET rest == Splice(t, items, i + 1, items[i].position[2])
              IN IF rest.panic THEN rest
                 ELSE [panic |-> FALSE,
                       out |-> Sub(t, current, items[i].position[1])
                               \o items[i].content \o rest.out]

WriteNote(n) == Splice(n.content, SortItems(UpdatedItems(n)), 1, 0)

(***************************************************************************)
(* The caller: assembles a Markdown text, loads it, edits the exported     *)
(* fields of the items, writes the note back                               *)
(***************************************************************************)
\* the fragments a text is assembled from
Segments ==
    {<<"#", "a">>,
     <<" ", "#", "b", " ">>,
     <<"#">>,
     <<"1">>,
     <<" ">>,
     <<".">>,
     <<"\n">>,
     <<"a">>,
     <<"!", "[">>,
     <<"]", "(", "x", ")">>,
     <<")">>,
     <<"]", "(", "n", "(", "p", ")", "/", "t", ")">>,
     <<"<", "a", " ", "h", "r", "e", "f", "=", "'", "a", "%", "2", "0", "b", "/", "c", "'", ">", "f">>,
     <<"<", "/", "a", ">">>}

\* the values the caller assigns
NewTagNames == {<<>>, <<"z">>}

NewLocations == {<<"n", "2", "/", "x", " ", "y">>}

NewNames == {<<"f">>}

NewDescriptions == {<<"d", " ", "e">>}

NoNote == [content |-> <<>>, Tags |-> <<>>, Files |-> <<>>, Images |-> <<>>]

NoResult == [panic |-> FALSE, out |-> <<>>]

\* MigrateNotes is not running
MigrateIdle ==
    /\ tags = <<>>
    /\ queue = <<>>
    /\ mpc = "idle"
    /\ allNotes = 0
    /\ success = 0
    /\ targetDir = <<>>
    /\ handlingStrategy = ""
    /\ ti = 0
    /\ ii = 0
    /\ fi = 0
    /\ fs = <<>>
    /\ dirs = {}
    /\ sources = <<>>

Init ==
    /\ content = <<>>
    /\ nsegs = 0
    /\ pc = "input"
    /\ note = NoNote
    /\ nedits = 0
    /\ result = NoResult
    /\ path = <<>>
    /\ escaped = <<>>
    /\ epc = "idle"
    /\ MigrateIdle

AppendSegment(seg) ==
    /\ pc = "input"
    /\ nsegs < MaxSegs
    /\ content' = content \o seg
    /\ nsegs' = nsegs + 1
    /\ UNCHANGED <<pc, note, nedits, result, path, escaped, epc>>
    /\ UNCHANGED mvars

Load ==
    /\ pc = "input"
    /\ note' = LoadNote(content)
    /\ pc' = "loaded"
    /\ UNCHANGED <<content, nsegs, nedits, result, path, escaped, epc>>
    /\ UNCHANGED mvars

Edit(n) ==
    /\ pc = "loaded"
    /\ nedits < MaxEdits
    /\ note' = n
    /\ nedits' = nedits + 1
    /\ UNCHANGED <<content, nsegs, pc, result, path, escaped, epc>>
    /\ UNCHANGED mvars

SetTagName(k, v) == Edit([note EXCEPT !.Tags[k].Name = v])

SetFileLocation(k, v) == Edit([note EXCEPT !.Files[k].Location = v])

SetFileName(k, v) == Edit([note EXCEPT !.Files[k].Name = v])

SetImageLocation(k, v) == Edit([note EXCEPT !.Images[k].Location = v])

SetImageDescription(k, v) == Edit([note EXCEPT !.Images[k].Description = v])

Write ==
    /\ pc = "loaded"
    /\ result' = WriteNote(note)
    /\ pc' = "written"
    /\ UNCHANGED <<content, nsegs, note, nedits, path, escaped, epc>>
    /\ UNCHANGED mvars

Next ==
    \/ \E seg \in Segments : AppendSegment(seg)
    \/ Load
    \/ \E k \in DOMAIN note.Tags, v \in NewTagNames : SetTagName(k, v)
    \/ \E k \in DOMAIN note.Files, v \in NewLocations : SetFileLocation(k, v)
    \/ \E k \in DOMAIN note.Files, v \in NewNames : SetFileName(k, v)
    \/ \E k \in DOMAIN note.Images, v \in NewLocations : SetImageLocation(k, v)
    \/ \E k \in DOMAIN note.Images, v \in NewDescriptions : SetImageDescription(k, v)
    \/ Write

Spec == Init /\ [][Next]_vars

(***************************************************************************)
(* escapePath on its own: a location string is drawn character by         *)
(* character, then escaped                                                 *)
(***************************************************************************)
PathAlphabet == {"a", "/", " ", "(", ")", "%"}

InitEscape ==
    /\ content = <<>>
    /\ nsegs = 0
    /\ pc = "idle"
    /\ note = NoNote
    /\ nedits = 0
    /\ result = NoResult
    /\ path = <<>>
    /\ escaped = <<>>
    /\ epc = "input"
    /\ MigrateIdle

PathAppend(c) ==
    /\ epc = "input"
    /\ Len(path) < MaxPathLen
    /\ path' = Append(path, c)
    /\ UNCHANGED <<content, nsegs, pc, note, nedits, result, escaped, epc>>
    /\ UNCHANGED mvars

Escape ==
    /\ epc = "input"
    /\ escaped' = escapePath(path)
    /\ epc' = "escaped"
    /\ UNCHANGED <<content, nsegs, pc, note, nedits, result, path>>
    /\ UNCHANGED mvars

NextEscape ==
    \/ \E c \in PathAlphabet : PathAppend(c)
    \/ Escape

SpecEscape == InitEscape /\ [][NextEscape]_vars

(***************************************************************************)
(* MigrateNotes (cmd/migrate.go): path helpers                             *)
(***************************************************************************)
RECURSIVE JoinWith(_, _)
\* the elements of `elems` from index i on, separated by "/"
JoinWith(elems, i) ==
    IF i > Len(elems) THEN <<>>
    ELSE (IF i > 1 THEN <<"/">> ELSE <<>>) \o elems[i] \o JoinWith(elems, i + 1)

RECURSIVE SelectNonEmpty(_)
SelectNonEmpty(elems) ==
    IF elems = <<>> THEN <<>>
    ELSE (IF Head(elems) = <<>> THEN <<>> ELSE <<Head(elems)>>)
         \o SelectNonEmpty(Tail(elems))

RECURSIVE CleanComponents(_, _, _, _)
\* the components path.Clean keeps: "" and "." are dropped, ".." removes
\* the component before it (or is kept at the start of a relative path)
CleanComponents(comps, i, kept, rooted) ==
    IF i > Len(comps) THEN kept
    ELSE LET c == comps[i] IN
         IF c = <<>> \/ c = <<".">> THEN CleanComponents(comps, i + 1, kept, rooted)
         ELSE IF c = <<".", ".">> THEN
              IF kept # <<>> /\ kept[Len(kept)] # <<".", ".">>
              THEN CleanComponents(comps, i + 1, SubSeq(kept, 1, Len(kept) - 1), rooted)
              ELSE IF rooted THEN CleanComponents(comps, i + 1, kept, rooted)
              ELSE CleanComponents(comps, i + 1, Append(kept, c), rooted)
         ELSE CleanComponents(comps, i + 1, Append(kept, c), rooted)

\* path.Clean
Clean(p) ==
    LET rooted == p # <<>> /\ p[1] = "/"
        kept == CleanComponents(Split(p, "/"), 1, <<>>, rooted)
        out == (IF rooted THEN <<"/">> ELSE <<>>) \o JoinWith(kept, 1)
    IN IF out = <<>> THEN <<".">> ELSE out

\* path.Join / filepath.Join: empty elements are ignored, the result is
\* cleaned; the join of nothing but empty elements is the empty string
Join(elems) ==
    LET parts == SelectNonEmpty(elems)
    IN IF parts = <<>> THEN <<>> ELSE Clean(JoinWith(parts, 1))

RECURSIVE TrimTrailingSlashes(_)
TrimTrailingSlashes(p) ==
    IF p # <<>> /\ p[Len(p)] = "/" THEN TrimTrailingSlashes(SubSeq(p, 1, Len(p) - 1))
    ELSE p

\* filepath.Base
Base(p) ==
    IF p = <<>> THEN <<".">>
    ELSE LET q == TrimTrailingSlashes(p)
             slashes == {i \in DOMAIN q : q[i] = "/"}
             last == IF slashes = {} THEN q ELSE SubSeq(q, SetMax(slashes) + 1, Len(q))
         IN IF last = <<>> THEN <<"/">> ELSE last

\* strings.TrimSuffix
TrimSuffix(s, suffix) ==
    IF Len(s) >= Len(suffix) /\ SubSeq(s, Len(s) - Len(suffix) + 1, Len(s)) = suffix
    THEN SubSeq(s, 1, Len(s) - Len(suffix))
    ELSE s

\* the directories os.MkdirAll(p) makes sure exist: p and its parents
Parents(p) ==
    LET comps == CleanComponents(Split(p, "/"), 1, <<>>, FALSE)
    IN {JoinWith(SubSeq(comps, 1, k), 1) : k \in 1..Len(comps)}

UpperCase ==
    <<"A", "B", "C", "D", "E", "F", "G", "H", "I", "J", "K", "L", "M",
      "N", "O", "P", "Q", "R", "S", "T", "U", "V", "W", "X", "Y", "Z">>

LowerCase ==
    <<"a", "b", "c", "d", "e", "f", "g", "h", "i", "j", "k", "l", "m",
      "n", "o", "p", "q", "r", "s", "t", "u", "v", "w", "x", "y", "z">>

\* strings.ToLower on the ASCII alphabet
ToLower(s) ==
    [i \in DOMAIN s |->
        IF \E k \in DOMAIN UpperCase : UpperCase[k] = s[i]
        THEN LowerCase[CHOOSE k \in DOMAIN UpperCase : UpperCase[k] = s[i]]
        ELSE s[i]]

\* norm.NFC.String: every character of the alphabet is ASCII and ASCII text
\* is its own NFC form
NFC(s) == s

(***************************************************************************)
(* MigrateNotes (cmd/migrate.go): the walk over the notes of `from`.  One  *)
(* action per step of the callback filepath.Walk is given; the files the   *)
(* callback returns at once for (directories, names without ".md") are not *)
(* part of the queue.                                                      *)
(***************************************************************************)
\* the arguments `from` and `to`
FromDir == <<"s">>

ToDir == <<"t">>

MdSuffix == <<".", "m", "d">>

\* the zero value of TagOptions, what a failed map lookup returns
ZeroTagOptions ==
    [Ignore |-> FALSE, HandlingStrategy |-> "", TargetDirectory |-> <<>>,
     TargetTagName |-> <<>>]

\* variant: the lookup reports every name as configured
LookupTagAlwaysOk(tagName) ==
    [ok |-> TRUE,
     option |-> IF tagName \in DOMAIN tags THEN tags[tagName] ELSE ZeroTagOptions]

\* tagOption, ok := tags[tagName]
LookupTag(tagName) ==
    IF tagName \in DOMAIN tags
    THEN [ok |-> TRUE, option |-> tags[tagName]]
    ELSE [ok |-> FALSE, option |-> ZeroTagOptions]

\* variant: the ignore flag of the configuration is not read
TagIgnoredNever(tagOption) == FALSE

\* if tagOption.Ignore { continue }
TagIgnored(tagOption) == tagOption.Ignore

ValidHandlingStrategies == {"same-folder", "one-note-per-folder", ""}

\* the target directory after the tag loop has seen one more tag
NextTargetDir(dir, tagOption) ==
    IF /\ tagOption.TargetDirectory # <<>>
       /\ dir # <<>>
       /\ dir # tagOption.TargetDirectory
    THEN dir
    ELSE tagOption.TargetDirectory

\* the handling strategy after the tag loop has seen one more tag
NextHandlingStrategy(strategy, tagOption) ==
    IF /\ tagOption.HandlingStrategy # ""
       /\ strategy # ""
       /\ strategy # tagOption.HandlingStrategy
    THEN strategy
    ELSE IF tagOption.HandlingStrategy \in ValidHandlingStrategies
         THEN tagOption.HandlingStrategy
         ELSE strategy

\* the directory the note goes to
ComputeTargetDir(dir, strategy, noteName) ==
    IF strategy = "one-note-per-folder" THEN Join(<<ToDir, dir, noteName>>)
    ELSE IF strategy = "same-folder" THEN Join(<<ToDir, dir>>)
    ELSE ToDir

DirPaths == {d.path : d \in dirs}

\* variant: the destination is never found to exist
DestinationExistsNever(destination) == FALSE

\* os.Stat(destination) finds a file or a directory
DestinationExists(destination) ==
    destination \in DOMAIN fs \/ destination \in DirPaths

\* what os.Stat(src) of copyFile finds
SourceKind(source) ==
    IF source \in DOMAIN sources THEN sources[source]
    ELSE IF source = FromDir THEN "directory"
    ELSE "missing"

\* the file system after a file was created or truncated and written
WithFile(files, p, f) ==
    [q \in DOMAIN files \cup {p} |-> IF q = p THEN f ELSE files[q]]

\* the name of the file the walk is at
CurrentName == Head(queue).name

StartNote ==
    /\ mpc = "walk"
    /\ queue # <<>>
    /\ allNotes' = allNotes + 1
    /\ note' = LoadNote(Head(queue).text)
    /\ targetDir' = <<>>
    /\ handlingStrategy' = ""
    /\ ti' = 1
    /\ mpc' = "tags"
    /\ UNCHANGED <<tags, queue, success, ii, fi, fs, dirs, sources>>
    /\ UNCHANGED <<content, nsegs, pc, nedits, result, path, escaped, epc>>

\* ioutil.ReadFile fails
ReadFails ==
    /\ mpc = "walk"
    /\ queue # <<>>
    /\ allNotes' = allNotes + 1
    /\ mpc' = "failed"
    /\ UNCHANGED <<tags, queue, success, targetDir, handlingStrategy, ti, ii, fi,
                   fs, dirs, sources>>
    /\ UNCHANGED <<content, nsegs, pc, note, nedits, result, path, escaped, epc>>

\* one iteration of the loop over note.Tags
TagStep ==
    /\ mpc = "tags"
    /\ ti <= Len(note.Tags)
    /\ LET tagName == ToLower(NFC(note.Tags[ti].Name))
           found == LookupTag(tagName)
           tagOption == found.option
       IN IF ~found.ok
          THEN /\ mpc' = "unknown-tag"
               /\ UNCHANGED <<note, targetDir, handlingStrategy, ti>>
          ELSE IF TagIgnored(tagOption)
          THEN /\ ti' = ti + 1
               /\ UNCHANGED <<note, targetDir, handlingStrategy, mpc>>
          ELSE /\ note' = [note EXCEPT !.Tags[ti].Name = tagOption.TargetTagName]
               /\ targetDir' = NextTargetDir(targetDir, tagOption)
               /\ handlingStrategy' = NextHandlingStrategy(handlingStrategy, tagOption)
               /\ ti' = ti + 1
               /\ UNCHANGED mpc
    /\ UNCHANGED <<tags, queue, allNotes, success, ii, fi, fs, dirs, sources>>
    /\ UNCHANGED <<content, nsegs, pc, nedits, result, path, escaped, epc>>

\* the target directory is computed and created with os.MkdirAll
MakeTargetDir ==
    /\ mpc = "tags"
    /\ ti > Len(note.Tags)
    /\ LET noteName == TrimSuffix(CurrentName, MdSuffix)
           dir == ComputeTargetDir(targetDir, handlingStrategy, noteName)
       IN /\ targetDir' = dir
          /\ IF \E p \in Parents(dir) : p \in DOMAIN fs
             THEN /\ mpc' = "failed"
                  /\ UNCHANGED <<dirs, ii, fi>>
             ELSE /\ dirs' = dirs \cup {[path |-> p, by |-> allNotes] :
                                            p \in Parents(dir) \ DirPaths}
                  /\ ii' = 1
                  /\ fi' = 1
                  /\ mpc' = "attach"
    /\ UNCHANGED <<tags, queue, allNotes, success, handlingStrategy, ti, fs, sources>>
    /\ UNCHANGED <<content, nsegs, pc, note, nedits, result, path, escaped, epc>>

\* the body shared by the image loop and the file loop: stat the destination,
\* copy when it does not exist, then store the base name as the new location
CopyAttachment(source, destination, onward) ==
    IF DestinationExists(destination) \/ SourceKind(source) = "missing"
    THEN /\ onward
         /\ UNCHANGED <<fs, mpc>>
    ELSE IF SourceKind(source) = "regular"
    THEN /\ fs' = WithFile(fs, destination,
                           [kind |-> "copy", by |-> allNotes, data |-> source])
         /\ onward
         /\ UNCHANGED mpc
    ELSE /\ mpc' = "failed"
         /\ UNCHANGED <<fs, note, ii, fi>>

\* one iteration of the loop over note.Images
ImageStep ==
    /\ mpc = "attach"
    /\ ii <= Len(note.Images)
    /\ LET image == note.Images[ii]
           imageFileName == Base(NFC(image.Location))
           source == Join(<<FromDir, NFC(image.Location)>>)
           destination == Join(<<targetDir, imageFileName>>)
       IN CopyAttachment(source, destination,
              /\ note' = [note EXCEPT !.Images[ii].Location = imageFileName]
              /\ ii' = ii + 1
              /\ UNCHANGED fi)
    /\ UNCHANGED <<tags, queue, allNotes, success, targetDir, handlingStrategy, ti,
                   dirs, sources>>
    /\ UNCHANGED <<content, nsegs, pc, nedits, result, path, escaped, epc>>

\* one iteration of the loop over note.Files
FileStep ==
    /\ mpc = "attach"
    /\ ii > Len(note.Images)
    /\ fi <= Len(note.Files)
    /\ LET file == note.Files[fi]
           noteName == TrimSuffix(CurrentName, MdSuffix)
           fileName == Base(NFC(file.Location))
           source == Join(<<FromDir, noteName, NFC(file.Location)>>)
           destination == Join(<<targetDir, fileName>>)
       IN CopyAttachment(source, destination,
              /\ note' = [note EXCEPT !.Files[fi].Location = fileName]
              /\ fi' = fi + 1
              /\ UNCHANGED ii)
    /\ UNCHANGED <<tags, queue, allNotes, success, targetDir, handlingStrategy, ti,
                   dirs, sources>>
    /\ UNCHANGED <<content, nsegs, pc, nedits, result, path, escaped, epc>>

\* note.WriteNote(), os.Create, WriteString, success++
WriteStep ==
    /\ mpc = "attach"
    /\ ii > Len(note.Images)
    /\ fi > Len(note.Files)
    /\ LET newNote == WriteNote(note)
           targetNoteFileName == Join(<<targetDir, CurrentName>>)
       IN /\ result' = newNote
          /\ IF newNote.panic
             THEN /\ mpc' = "panicked"
                  /\ UNCHANGED <<fs, success>>
             ELSE IF targetNoteFileName \in DirPaths
             THEN /\ mpc' = "failed"
                  /\ UNCHANGED <<fs, success>>
             ELSE /\ fs' = WithFile(fs, targetNoteFileName,
                                    [kind |-> "note", by |-> allNotes,
                                     data |-> newNote.out])
                  /\ success' = success + 1
                  /\ mpc' = "wrote"
    /\ UNCHANGED <<tags, queue, allNotes, targetDir, handlingStrategy, ti, ii, fi,
                   dirs, sources>>
    /\ UNCHANGED <<content, nsegs, pc, note, nedits, path, escaped, epc>>

\* the callback returns nil and the walk goes on to the next file
Return ==
    /\ mpc \in {"unknown-tag", "failed", "wrote"}
    /\ queue' = Tail(queue)
    /\ mpc' = "walk"
    /\ UNCHANGED <<tags, allNotes, success, targetDir, handlingStrategy, ti, ii, fi,
                   fs, dirs, sources>>
    /\ UNCHANGED <<content, nsegs, pc, note, nedits, result, path, escaped, epc>>

\* the walk is over and the counters are printed
Finish ==
    /\ mpc = "walk"
    /\ queue = <<>>
    /\ mpc' = "done"
    /\ UNCHANGED <<tags, queue, allNotes, success, targetDir, handlingStrategy, ti,
                   ii, fi, fs, dirs, sources>>
    /\ UNCHANGED <<content, nsegs, pc, note, nedits, result, path, escaped, epc>>

\* the failures the last Printf reports
Failures == allNotes - success

NextMigrate ==
    \/ StartNote
    \/ ReadFails
    \/ TagStep
    \/ MakeTargetDir
    \/ ImageStep
    \/ FileStep
    \/ WriteStep
    \/ Return
    \/ Finish

(***************************************************************************)
(* MigrateNotes: the inputs of a run (the tag configuration file, the      *)
(* notes and attachments under `from`, what `to` already holds)            *)
(***************************************************************************)
\* the notes a run finds
NoteNoTag ==
    <<"x">>

NoteTagA ==
    <<"#", "a">>

NoteTagsAB ==
    <<"#", "a", " ", "#", "b">>

NoteTagsABA ==
    <<"#", "a", " ", "#", "B", " ", "#", "a">>

NoteAttachments ==
    <<"#", "a", "\n", "!", "[", "]", "(", "p", "/", "i", ")", "\n", "<",
      "a", " ", "h", "r", "e", "f", "=", "'", "q", "/", "f", "'", ">",
      "f", "<", "/", "a", ">">>

NoteUnknownTag ==
    <<"#", "a", " ", "#", "c", "\n", "!", "[", "]", "(", "p", "/", "i",
      ")">>

NoteSameBase ==
    <<"#", "b", " ", "!", "[", "]", "(", "p", "/", "i", ")", " ", "!",
      "[", "]", "(", "r", "/", "i", ")">>

NoteTagInImage ==
    <<"!", "[", " ", "#", "a", " ", "]", "(", "p", "/", "i", ")">>

NoteTexts ==
    {NoteNoTag, NoteTagA, NoteTagsAB, NoteTagsABA, NoteAttachments,
     NoteUnknownTag, NoteSameBase, NoteTagInImage}

\* the tag names of the configuration file (keys are lower case)
ConfiguredTags == {<<"a">>, <<"b">>}

\* the values the fields of a tag's configuration take; "merge" is not a
\* handling strategy the tool knows
ConfigHandlingStrategies == {"", "same-folder", "one-note-per-folder", "merge"}

ConfigTargetDirectories == {<<>>, <<"d">>, <<"e">>}

ConfigTargetTagNames == {<<>>, <<"z">>}

IgnoredTagOptions ==
    [Ignore |-> TRUE, HandlingStrategy |-> "one-note-per-folder",
     TargetDirectory |-> <<"e">>, TargetTagName |-> <<"y">>]

TagOptions(strategy, dir, name) ==
    [Ignore |-> FALSE, HandlingStrategy |-> strategy, TargetDirectory |-> dir,
     TargetTagName |-> name]

AllTagOptions ==
    {IgnoredTagOptions} \cup
    {TagOptions(s, d, n) : s \in ConfigHandlingStrategies,
                           d \in ConfigTargetDirectories,
                           n \in ConfigTargetTagNames}

\* the name of the k-th note file of the walk: m.md, n.md, ...
NoteFileName(k) == <<LowerCase[12 + k]>> \o MdSuffix

ImageSourceP == <<"s", "/", "p", "/", "i">>

ImageSourceR == <<"s", "/", "r", "/", "i">>

FileSourceM == <<"s", "/", "m", "/", "q", "/", "f">>

FileSourceN == <<"s", "/", "n", "/", "q", "/", "f">>

AllRegular ==
    [p \in {ImageSourceP, ImageSourceR, FileSourceM, FileSourceN} |-> "regular"]

OldFile == [kind |-> "old", by |-> 0, data |-> <<>>]

\* `to` holding the files of `paths` before the run
Preexisting(paths) == [p \in paths |-> OldFile]

\* the directories that hold the files of `files`
DirsOf(files) ==
    {[path |-> d, by |-> 0] :
        d \in UNION {Parents(p) \ {p} : p \in DOMAIN files}}

MigrateStart ==
    /\ allNotes = 0
    /\ success = 0
    /\ mpc = "walk"
    /\ targetDir = <<>>
    /\ handlingStrategy = ""
    /\ ti = 0
    /\ ii = 0
    /\ fi = 0
    /\ content = <<>>
    /\ nsegs = 0
    /\ pc = "idle"
    /\ note = NoNote
    /\ nedits = 0
    /\ result = NoResult
    /\ path = <<>>
    /\ escaped = <<>>
    /\ epc = "idle"

\* one note, any configuration of its tags, an empty destination
InitMigrateTags ==
    /\ tags \in [ConfiguredTags -> AllTagOptions]
    /\ queue \in {<<[name |-> NoteFileName(1), text |-> t]>> : t \in NoteTexts}
    /\ sources = AllRegular
    /\ fs = Preexisting({})
    /\ dirs = {}
    /\ MigrateStart

SpecMigrateTags == InitMigrateTags /\ [][NextMigrate]_vars

\* bound on the number of notes under `from`
MaxNotes == 2

WalkTexts ==
    {NoteNoTag, NoteAttachments, NoteUnknownTag, NoteSameBase, NoteTagInImage}

WalkTagOptionsA ==
    {TagOptions("same-folder", <<"d">>, <<"z">>),
     TagOptions("one-note-per-folder", <<"d">>, <<>>),
     TagOptions("", <<>>, <<"a">>)}

WalkTagOptionsB == {IgnoredTagOptions, TagOptions("", <<>>, <<"b">>)}

WalkSources ==
    {AllRegular,
     [AllRegular EXCEPT ![ImageSourceP] = "missing"],
     [AllRegular EXCEPT ![ImageSourceR] = "directory"],
     [AllRegular EXCEPT ![FileSourceM] = "directory", ![FileSourceN] = "missing"]}

WalkDestinations ==
    {Preexisting({}),
     Preexisting({<<"t", "/", "i">>, <<"t", "/", "d", "/", "i">>}),
     Preexisting({<<"t", "/", "d", "/", "f">>, <<"t", "/", "d", "/", "m", "/", "i">>}),
     Preexisting({<<"t", "/", "d">>})}

\* up to MaxNotes notes, a few configurations, sources and destinations
InitMigrate ==
    /\ tags \in {[t \in ConfiguredTags |-> IF t = <<"a">> THEN a ELSE b] :
                    a \in WalkTagOptionsA, b \in WalkTagOptionsB}
    /\ \E n \in 0..MaxNotes :
          queue \in {[k \in 1..n |-> [name |-> NoteFileName(k), text |-> w[k]]] :
                        w \in [1..n -> WalkTexts]}
    /\ sources \in WalkSources
    /\ fs \in WalkDestinations
    /\ dirs = DirsOf(fs)
    /\ MigrateStart

SpecMigrate == InitMigrate /\ [][NextMigrate]_vars

(***************************************************************************)
(* Definitions the properties are stated with.  They read the text and the *)
(* stored spans directly and do not go through the matcher.                *)
(***************************************************************************)
Loaded == pc \in {"loaded", "written"}

AllSpans(n) ==
    [i \in DOMAIN n.Tags |-> n.Tags[i].position]
    \o [i \in DOMAIN n.Files |-> n.Files[i].position]
    \o [i \in DOMAIN n.Images |-> n.Images[i].position]

AllRenderings(n) ==
    [i \in DOMAIN n.Tags |-> TagString(n.Tags[i])]
    \o [i \in DOMAIN n.Files |-> FileString(n.Files[i])]
    \o [i \in DOMAIN n.Images |-> ImageString(n.Images[i])]

SpansOverlap(a, b) == a[1] < b[2] /\ b[1] < a[2]

PairwiseDisjoint(n) ==
    LET sp == AllSpans(n)
    IN \A i, j \in DOMAIN sp : i # j => ~SpansOverlap(sp[i], sp[j])

SpansInBounds(n) ==
    LET sp == AllSpans(n)
    IN \A i \in DOMAIN sp : 0 <= sp[i][1] /\ sp[i][1] <= sp[i][2] /\ sp[i][2] <= Len(n.content)

RECURSIVE ExpectedFrom(_, _, _, _, _)
\* the text from offset `cursor` on, with the spans of the items of `todo`
\* replaced by their renderings, taken in ascending order of span start
ExpectedFrom(t, sp, rd, todo, cursor) ==
    IF todo = {} THEN Sub(t, cursor, Len(t))
    ELSE LET i == CHOOSE x \in todo : \A y \in todo : sp[x][1] <= sp[y][1]
         IN Sub(t, cursor, sp[i][1]) \o rd[i]
            \o ExpectedFrom(t, sp, rd, todo \ {i}, sp[i][2])

Expected(n) ==
    ExpectedFrom(n.content, AllSpans(n), AllRenderings(n), DOMAIN AllSpans(n), 0)

\* offset of the "#" of a parsed tag
HashOffset(tag) == tag.position[1] + Len(tag.before)

\* offset just after the name of a parsed tag
NameEndOffset(tag) == tag.position[2] - Len(tag.after)

\* the name a tag was parsed with, read back from the text
ParsedName(n, k) == Sub(n.content, HashOffset(n.Tags[k]) + 1, NameEndOffset(n.Tags[k]))

\* end of the name that starts after the "#" at offset h
NameEndAfter(t, h) ==
    CHOOSE n \in (h + 1)..Len(t) :
        /\ \A j \in (h + 1)..(n - 1) : t[j + 1] \in NameChars
        /\ (n = Len(t) \/ t[n + 1] \notin NameChars)

\* a tag as the documentation describes it: "#", a letter, name characters,
\* with white space or nothing on either side
WellFormedTagAt(t, h) ==
    /\ h + 1 < Len(t)
    /\ t[h + 1] = "#"
    /\ t[h + 2] \in Letters
    /\ (h = 0 \/ t[h] \in Spaces)
    /\ LET n == NameEndAfter(t, h) IN n = Len(t) \/ t[n + 1] \in Spaces

Count(c, s) == Cardinality({i \in DOMAIN s : s[i] = c})

HasSubstring(s, w) == \E i \in 0..(Len(s) - Len(w)) : Sub(s, i, i + Len(w)) = w

C2_SpliceInDocumentOrder ==
    (pc = "written" /\ PairwiseDisjoint(note)) =>
        (~result.panic /\ result.out = Expected(note))

\* an image that precedes a tag in the text, although tags are collected first
C2_Witness ==
    /\ pc = "written" /\ nedits > 0 /\ PairwiseDisjoint(note)
    /\ Len(note.Tags) >= 1 /\ Len(note.Images) >= 1
    /\ note.Images[1].position[2] <= note.Tags[1].position[1]
    /\ result.out # content

(***************************************************************************)
(* C3                                                                      *)
(***************************************************************************)
\* C3: LoadNote and WriteNote are total: WriteNote on a loaded note, edited
\* or not, returns a string and does not panic.
C3_WriteNoteTotal == pc = "written" => ~result.panic

(***************************************************************************)
(* C4                                                                      *)
(***************************************************************************)
\* C4: the spans of any two distinct items of LoadNote(text), across the
\* three collections, do not overlap, and every span lies within the text.
C4_SpansDisjointInBounds == Loaded => (PairwiseDisjoint(note) /\ SpansInBounds(note))

(***************************************************************************)
(* C5                                                                      *)
(***************************************************************************)
\* C5: every Tag of LoadNote(text) has its "#" at the start of the text or
\* directly after a white space character, and its name at the end of the
\* text or directly before a white space character.
C5_TagBoundaries ==
    (Loaded /\ nedits = 0) =>
        \A k \in DOMAIN note.Tags :
            LET h == HashOffset(note.Tags[k])
                n == NameEndOffset(note.Tags[k])
            IN /\ (h = 0 \/ content[h] \in Spaces)
               /\ (n = Len(content) \/ content[n + 1] \in Spaces)

(***************************************************************************)
(* C6                                                                      *)
(***************************************************************************)
\* two well-formed tags at offsets h1 < h2 with exactly one white space
\* character between the name of the first and the "#" of the second
AdjacentTags(t, h1, h2) ==
    /\ WellFormedTagAt(t, h1)
    /\ WellFormedTagAt(t, h2)
    /\ h2 = NameEndAfter(t, h1) + 1

\* C6: two well-formed tags separated by exactly one white space character
\* are both returned by LoadNote, as two Tags in left-to-right order.
C6_AdjacentTagsBothParsed ==
    (Loaded /\ nedits = 0) =>
        \A h1, h2 \in 0..(Len(content) - 1) :
            AdjacentTags(content, h1, h2) =>
                \E k \in 1..(Len(note.Tags) - 1) :
                    /\ HashOffset(note.Tags[k]) = h1
                    /\ note.Tags[k].Name = Sub(content, h1 + 1, NameEndAfter(content, h1))
                    /\ HashOffset(note.Tags[k + 1]) = h2
                    /\ note.Tags[k + 1].Name = Sub(content, h2 + 1, NameEndAfter(content, h2))

C6_Witness ==
    /\ pc = "loaded" /\ nedits = 0
    /\ \E h1, h2 \in 0..(Len(content) - 1) : AdjacentTags(content, h1, h2)
    /\ Len(note.Tags) >= 2

(***************************************************************************)
(* C7                                                                      *)
(***************************************************************************)
RECURSIVE SumShift(_, _, _)
\* by how much replacing the spans of the items of S by their renderings
\* lengthens the text
SumShift(sp, rd, S) ==
    IF S = {} THEN 0
    ELSE LET i == CHOOSE x \in S : TRUE
         IN Len(rd[i]) - (sp[i][2] - sp[i][1]) + SumShift(sp, rd, S \ {i})

\* offset in the output of the rendering of tag k of a note with disjoint spans
OutputOffset(n, k) ==
    LET sp == AllSpans(n)
    IN sp[k][1] + SumShift(sp, AllRenderings(n), {j \in DOMAIN sp : sp[j][1] < sp[k][1]})

\* what WriteNote gives for n relates to what it gives for n with the name of
\* tag k set to v instead of the empty string: the same but for the "#" and v
RemovalOnly(n, k, v, got) ==
    LET named == [n EXCEPT !.Tags[k].Name = v]
        r0 == WriteNote(named)
        tag == n.Tags[k]
        full == tag.before \o <<"#">> \o v \o tag.after
        i == OutputOffset(named, k)
    IN /\ got.panic = r0.panic
       /\ ~got.panic =>
             /\ Sub(r0.out, i, i + Len(full)) = full
             /\ got.out = Sub(r0.out, 0, i) \o tag.before \o tag.after
                          \o Sub(r0.out, i + Len(full), Len(r0.out))

\* C7: with the Name of one parsed Tag set to the empty string, WriteNote
\* emits for that tag only its before and after boundary characters, and the
\* rest of the output is what it is with the tag named (its parsed name or any
\* other name); WriteNote fails with the name removed exactly when it fails
\* with the tag named.
C7_TagRemoval ==
    pc = "written" =>
        \A k \in DOMAIN note.Tags :
            note.Tags[k].Name = <<>> =>
                \A v \in ({ParsedName(note, k)} \cup NewTagNames) \ {<<>>} :
                    RemovalOnly(note, k, v, result)

C7_Witness ==
    /\ pc = "written" /\ ~result.panic
    /\ Len(note.Tags) >= 3
    /\ note.Tags[1].Name # <<>>
    /\ note.Tags[2].Name = <<>>
    /\ note.Tags[3].Name # <<>>

(***************************************************************************)
(* C8                                                                      *)
(***************************************************************************)
\* C8: escapePath(p) has as many "/" as p, none of them percent-encoded,
\* space and parentheses are percent-encoded, and percent-decoding the
\* result gives back p.
C8_EscapePath ==
    epc = "escaped" =>
        /\ Count("/", escaped) = Count("/", path)
        /\ ~HasSubstring(escaped, <<"%", "2", "F">>)
        /\ \A i \in DOMAIN escaped : escaped[i] \notin {" ", "(", ")"}
        /\ Count("%", escaped) = Cardinality({i \in DOMAIN path : path[i] \notin {"a", "/"}})
        /\ UnescapeFrom(escaped, 0) = [ok |-> TRUE, out |-> path]

C8_Witness ==
    /\ epc = "escaped"
    /\ Count("/", path) >= 1
    /\ Count("(", path) >= 1
    /\ Count(" ", path) >= 1
    /\ escaped # path

(***************************************************************************)
(* C9                                                                      *)
(***************************************************************************)
NestedParenthesesImage == <<"!", "[", "]", "(", "n", "(", "p", ")", "/", "t", ")">>

\* C9: an image link whose URL contains parentheses is one Image whose
\* Location is the whole URL between the outer parentheses, and WriteNote
\* re-emits it with the inner parentheses percent-encoded.
C9_NestedParenthesesImage ==
    (pc = "written" /\ nedits = 0 /\ content = NestedParenthesesImage) =>
        /\ Len(note.Images) = 1
        /\ note.Images[1].Location = <<"n", "(", "p", ")", "/", "t">>
        /\ ~result.panic
        /\ result.out = <<"!", "[", "]", "(", "n", "%", "2", "8", "p", "%", "2", "9", "/", "t", ")">>

(***************************************************************************)
(* C10                                                                     *)
(***************************************************************************)
\* a "#" at offset h that no letter follows
HashWithoutLetter(t, h) ==
    /\ h < Len(t)
    /\ t[h + 1] = "#"
    /\ (h + 1 = Len(t) \/ t[h + 2] \notin Letters)

\* C10: the name of every Tag of LoadNote(text) begins with a letter, and a
\* "#" directly followed by a digit or another non-letter yields no Tag.
C10_TagNameStartsWithLetter ==
    (Loaded /\ nedits = 0) =>
        /\ \A k \in DOMAIN note.Tags :
               /\ note.Tags[k].Name # <<>>
               /\ note.Tags[k].Name[1] \in Letters
               /\ note.Tags[k].Name = ParsedName(note, k)
        /\ \A h \in 0..(Len(content) - 1) :
               HashWithoutLetter(content, h) =>
                   \A k \in DOMAIN note.Tags :
                       ~(note.Tags[k].position[1] <= h /\ h < note.Tags[k].position[2])

\* a "#" followed by a digit, with white space before and white space or
\* nothing after, next to a tag that is parsed
C10_Witness ==
    /\ pc = "loaded" /\ nedits = 0
    /\ \E h \in 1..(Len(content) - 2) :
           /\ content[h + 1] = "#"
           /\ content[h + 2] \in Digits
           /\ content[h] \in Spaces
           /\ (h + 2 = Len(content) \/ content[h + 3] \in Spaces)

(***************************************************************************)
(* Definitions the MigrateNotes properties are stated with.  They read the *)
(* configuration and the text of the note, not the variables of the loop.  *)
(***************************************************************************)
\* the tag loop of the current note has run to its end
TagLoopDone == mpc = "tags" /\ ti > Len(note.Tags)

\* the configuration of the k-th tag of the current note, looked up by the
\* name the tag has in the text
ConfigOf(k) == tags[ToLower(ParsedName(note, k))]

AllTagsConfigured ==
    \A k \in DOMAIN note.Tags : ToLower(ParsedName(note, k)) \in DOMAIN tags

\* the tags of the current note that give a target directory
DirectoryTags ==
    {k \in DOMAIN note.Tags :
        ~ConfigOf(k).Ignore /\ ConfigOf(k).TargetDirectory # <<>>}

\* the tags of the current note that give a handling strategy
StrategyTags ==
    {k \in DOMAIN note.Tags :
        /\ ~ConfigOf(k).Ignore
        /\ ConfigOf(k).HandlingStrategy \in {"same-folder", "one-note-per-folder"}}

(***************************************************************************)
(* C11                                                                     *)
(***************************************************************************)
\* C11: when the tag loop of a note is over, the target directory is the one
\* of the first non-ignored tag (in document order) that gives a non-empty
\* target directory, and the handling strategy is the one of the first
\* non-ignored tag that gives a valid non-empty handling strategy: no later
\* tag has changed either.
C11_FirstTagWins ==
    TagLoopDone =>
        /\ DirectoryTags # {} =>
              targetDir = ConfigOf(SetMin(DirectoryTags)).TargetDirectory
        /\ StrategyTags # {} =>
              handlingStrategy = ConfigOf(SetMin(StrategyTags)).HandlingStrategy

(***************************************************************************)
(* C12                                                                     *)
(***************************************************************************)
\* C12: when all the non-ignored tags of a note that give a target directory
\* give the same one, the note gets it, wherever the tags without a target
\* directory stand in the document; the same for the handling strategy.
C12_EmptyValueLeavesOtherTagsValue ==
    TagLoopDone =>
        /\ \A d \in ConfigTargetDirectories :
              {ConfigOf(k).TargetDirectory : k \in DirectoryTags} = {d}
                  => targetDir = d
        /\ \A s \in ConfigHandlingStrategies :
              {ConfigOf(k).HandlingStrategy : k \in StrategyTags} = {s}
                  => handlingStrategy = s

(***************************************************************************)
(* C13                                                                     *)
(***************************************************************************)
\* the file the current note was written to, when it is a note file written
\* for the current note
WrittenNoteFile(f) ==
    f \in DOMAIN fs /\ fs[f].kind = "note" /\ fs[f].by = allNotes

\* C13: a note whose tags give no target directory, or give no handling
\* strategy (a note without tags included), is written in the root of the
\* destination directory: its file is to/<file name>.
C13_UndeterminedGoesToRoot ==
    (mpc = "wrote" /\ (DirectoryTags = {} \/ StrategyTags = {}))
        => WrittenNoteFile(Join(<<ToDir, CurrentName>>))

(***************************************************************************)
(* C14                                                                     *)
(***************************************************************************)
\* the name the k-th tag of the current note is to be written with
ConfiguredName(k) ==
    IF ConfigOf(k).Ignore THEN ParsedName(note, k) ELSE ConfigOf(k).TargetTagName

\* the text the k-th tag of the current note is to be written as: the tag
\* with its configured name between the characters around it, or those
\* characters alone when the configured name is empty
ConfiguredTagText(k) ==
    note.Tags[k].before
    \o (IF ConfiguredName(k) = <<>> THEN <<>> ELSE <<"#">> \o ConfiguredName(k))
    \o note.Tags[k].after

\* the text of the current note with every tag written as configured
ConfiguredNoteText ==
    LET rd == [k \in DOMAIN note.Tags |-> ConfiguredTagText(k)]
              \o [i \in DOMAIN note.Files |-> FileString(note.Files[i])]
              \o [i \in DOMAIN note.Images |-> ImageString(note.Images[i])]
    IN ExpectedFrom(note.content, AllSpans(note), rd, DOMAIN AllSpans(note), 0)

RECURSIVE TagLoopWithoutIgnored(_, _, _)
\* target directory and handling strategy the tag loop gives when the note
\* holds its non-ignored tags only
TagLoopWithoutIgnored(k, dir, strategy) ==
    IF k > Len(note.Tags) THEN [dir |-> dir, strategy |-> strategy]
    ELSE IF ConfigOf(k).Ignore THEN TagLoopWithoutIgnored(k + 1, dir, strategy)
    ELSE TagLoopWithoutIgnored(k + 1, NextTargetDir(dir, ConfigOf(k)),
                               NextHandlingStrategy(strategy, ConfigOf(k)))

\* C14: in a written note every tag configured with ignore=false carries its
\* target_tag_name (and is gone from the text when that name is empty),
\* every tag configured with ignore=true carries the name it had, and the
\* note went where its non-ignored tags alone send it.
C14_TagsWrittenAsConfigured ==
    mpc = "wrote" =>
        /\ \A k \in DOMAIN note.Tags : note.Tags[k].Name = ConfiguredName(k)
        /\ result.out = ConfiguredNoteText
        /\ LET alone == TagLoopWithoutIgnored(1, <<>>, "")
               dir == ComputeTargetDir(alone.dir, alone.strategy,
                                       TrimSuffix(CurrentName, MdSuffix))
           IN /\ targetDir = dir
              /\ handlingStrategy = alone.strategy
              /\ WrittenNoteFile(Join(<<dir, CurrentName>>))
              /\ fs[Join(<<dir, CurrentName>>)].data = ConfiguredNoteText

\* a note was written that holds an ignored tag, whose configuration names
\* a directory, and a renamed tag
C14_Witness ==
    /\ mpc = "wrote"
    /\ \E k \in DOMAIN note.Tags :
          ConfigOf(k).Ignore /\ ConfigOf(k).TargetDirectory # <<>>
    /\ \E k \in DOMAIN note.Tags :
          /\ ~ConfigOf(k).Ignore
          /\ ConfigOf(k).TargetTagName = <<"z">>
          /\ ConfigOf(k).TargetDirectory = <<"d">>
          /\ ConfigOf(k).HandlingStrategy = "same-folder"
    /\ HasSubstring(result.out, <<"#", "z">>)
    /\ HasSubstring(result.out, <<"#", "B">>)

(***************************************************************************)
(* C15                                                                     *)
(***************************************************************************)
\* the walk is inside the callback for the note at the head of the queue
InNote == mpc \in {"tags", "attach", "unknown-tag", "failed", "wrote", "panicked"}

\* the note at the head of the queue holds a tag whose lower-case name is
\* not a key of the configuration
HasUnconfiguredTag ==
    LET parsed == LoadNote(Head(queue).text).Tags
    IN \E k \in DOMAIN parsed : ToLower(parsed[k].Name) \notin DOMAIN tags

\* the notes a note file was written for
NotesWritten == {fs[f].by : f \in {g \in DOMAIN fs : fs[g].kind = "note"}}

\* C15: while and after a note with an unconfigured tag is handled, no
\* directory was made, no attachment copied and no note file written for it,
\* and it is not counted as a success; once the callback has returned for it
\* the walk goes on.  At any time the successes are the notes written, at
\* least 0 and at most the notes processed, so the failures printed
\* (processed - successes) count every note that was not written.
C15_UnconfiguredTagNotMigrated ==
    /\ 0 <= success
    /\ success <= allNotes
    /\ success = Cardinality(NotesWritten)
    /\ Failures = Cardinality((1..allNotes) \ NotesWritten)
    /\ (InNote /\ HasUnconfiguredTag) =>
          /\ \A f \in DOMAIN fs : fs[f].by # allNotes
          /\ \A d \in dirs : d.by # allNotes
          /\ allNotes \notin NotesWritten
          /\ mpc \in {"tags", "unknown-tag", "failed"}
          /\ mpc = "unknown-tag" => ENABLED Return

\* the second note of the walk, after a first one that was written, is left
\* at its unconfigured tag, the tag before it already renamed
C15_Witness ==
    /\ mpc = "unknown-tag"
    /\ HasUnconfiguredTag
    /\ allNotes = 2
    /\ success = 1
    /\ Failures = 1
    /\ NotesWritten = {1}
    /\ note.Tags[1].Name = <<"z">>

(***************************************************************************)
(* C16                                                                     *)
(***************************************************************************)
\* the note at the head of the queue as LoadNote returns it
ParsedNote == LoadNote(Head(queue).text)

\* in the written note every image and file location is the base name of
\* the location the text had, and the text carries these locations
LocationsAreBaseNames ==
    mpc = "wrote" =>
        /\ \A i \in DOMAIN note.Images :
              note.Images[i].Location = Base(ParsedNote.Images[i].Location)
        /\ \A i \in DOMAIN note.Files :
              note.Files[i].Location = Base(ParsedNote.Files[i].Location)
        /\ result.out = Expected(note)

\* a step leaves every file of the destination as it is, unless it writes a
\* note file over it: an attachment copy only ever makes a new file
CopyOnlyMakesNewFiles ==
    \A p \in DOMAIN fs :
        /\ p \in DOMAIN fs'
        /\ (fs'[p] = fs[p] \/ fs'[p].kind = "note")

\* C16: an attachment is copied only to a path of the target directory where
\* nothing exists yet, so no file already there is overwritten by a copy, and
\* whether the attachment was copied, was already there or had no source, the
\* location written in the migrated note is the base name of the original
\* location.
C16_CopyNeverOverwrites ==
    /\ []LocationsAreBaseNames
    /\ [][CopyOnlyMakesNewFiles]_vars

\* a note was written whose image was already in the target directory before
\* the run and whose file attachment was copied there
C16_Witness ==
    /\ mpc = "wrote"
    /\ \E i \in DOMAIN note.Images :
          LET destination == Join(<<targetDir, note.Images[i].Location>>)
          IN /\ ParsedNote.Images[i].Location # note.Images[i].Location
             /\ destination \in DOMAIN fs
             /\ fs[destination] = OldFile
    /\ \E i \in DOMAIN note.Files :
          LET destination == Join(<<targetDir, note.Files[i].Location>>)
          IN /\ destination \in DOMAIN fs
             /\ fs[destination].kind = "copy"
             /\ fs[destination].by = allNotes

(***************************************************************************)
(* C17                                                                     *)
(***************************************************************************)
\* the spans the tag pattern matches in the text, accepted or not
TagCandidates == FindAllStringIndex("tag", content)

\* C17: for a text in which the file-link and the image-link pattern match
\* nothing, every accepted tag renders to exactly the characters of its span
\* (before, "#", name, after), the accepted tags are among the candidates, in
\* the order of the text, and WriteNote(LoadNote(text)) is the text, however
\* many candidates were rejected.
C17_TagsRenderTheirSpan ==
    (pc = "written" /\ nedits = 0
     /\ FindAllStringIndex("file", content) = <<>>
     /\ FindAllStringIndex("image", content) = <<>>) =>
        /\ note.Files = <<>> /\ note.Images = <<>>
        /\ \A k \in DOMAIN note.Tags :
              /\ TagString(note.Tags[k]) =
                     Sub(content, note.Tags[k].position[1], note.Tags[k].position[2])
              /\ \E c \in DOMAIN TagCandidates : TagCandidates[c] = note.Tags[k].position
              /\ k > 1 => note.Tags[k - 1].position[2] <= note.Tags[k].position[1]
        /\ ~result.panic
        /\ result.out = content

\* a text with a rejected candidate and an accepted tag that starts with a
\* white-space character, written back unchanged
C17_Witness ==
    /\ pc = "written" /\ nedits = 0
    /\ FindAllStringIndex("file", content) = <<>>
    /\ FindAllStringIndex("image", content) = <<>>
    /\ Len(TagCandidates) > Len(note.Tags)
    /\ \E k \in DOMAIN note.Tags : note.Tags[k].before # <<>>
    /\ result.out = content

====
